---- MODULE Spec2Model ----
(***************************************************************************)
(* Support-desk bot (src/botsupport/telegram_bot.py): the persisted        *)
(* collections (tickets, FAQ, activity log), the per-user session          *)
(* (context.user_data), the ticket ConversationHandler and the handlers    *)
(* registered in main().                                                   *)
(*                                                                         *)
(* Strings are sequences of one-character strings, so that len, split,     *)
(* strip, startswith, lower and int are computed as Python computes them.  *)
(* The module's alphabet is ASCII: every Cyrillic letter of a literal of   *)
(* the source is written as one Latin character, which keeps lengths and   *)
(* letter case (for example "ответ #" is written "otvet #", and the menu   *)
(* label of 14 characters is written "Sozdat' zaqvku").                    *)
(*                                                                         *)
(* Application.builder() leaves concurrent_updates off, so the dispatcher  *)
(* awaits one handler to completion before it takes the next update: one   *)
(* action is one whole handler.  Replies to the sender of the update       *)
(* (reply_text, edit_message_text, answer) are taken to be delivered;      *)
(* send_message to a third party raises for the recipients in the action's *)
(* `fail` parameter.  SpecOverlap lets handlers overlap at their awaits,    *)
(* SpecDisk lets the writes to the files fail.                              *)
(***************************************************************************)
EXTENDS Integers, Sequences, FiniteSets, TLC

VARIABLES
    tickets,        \* contents of tickets.json, a list of ticket records
    faq_items,      \* contents of faq.json, a list of FAQ records
    stats,          \* contents of stats.json, the activity log
    user_data,      \* context.user_data of every user: a dict, keys present only
    conversations,  \* ticket_conv's state of every user (END: no conversation)
    disk,           \* environment: what open(filename, 'w') and json.dump do now
    inflight,       \* of every user: the handler that is suspended at an await
    returned,       \* history: the highest id create_ticket / add_faq has returned
    last            \* history: the update handled last and what the handler sent

vars == <<tickets, faq_items, stats, user_data, conversations, disk, inflight,
          returned, last>>

----------------------------------------------------------------------------
(* Python values *)

None == <<>>
Some(v) == <<v>>

\* dict operations on a function whose domain is the set of keys present
EmptyDict == [k \in {} |-> TRUE]
Has(d, k) == k \in DOMAIN d
Put(d, k, v) == [x \in (DOMAIN d) \cup {k} |-> IF x = k THEN v ELSE d[x]]
Pop(d, k) == [x \in (DOMAIN d) \ {k} |-> d[x]]
\* d.get(k) used as a condition: absent, None and False are all falsy
Truthy(d, k) == Has(d, k) /\ d[k] = TRUE

----------------------------------------------------------------------------
(* Python str operations, on sequences of characters *)

Digits == <<"0", "1", "2", "3", "4", "5", "6", "7", "8", "9">>

IsDigit(c) == \E i \in 1..10 : Digits[i] = c
DigitValue(c) == (CHOOSE i \in 1..10 : Digits[i] = c) - 1

IsSpace(c) == c = " "

StartsWith(s, p) == Len(s) >= Len(p) /\ SubSeq(s, 1, Len(p)) = p

\* the index of the first occurrence of character c in s, 0 when there is none
RECURSIVE FindFrom(_, _, _)
FindFrom(s, c, i) ==
    IF i > Len(s) THEN 0
    ELSE IF s[i] = c THEN i
    ELSE FindFrom(s, c, i + 1)

Find(s, c) == FindFrom(s, c, 1)

\* s.split(c): the pieces between the occurrences of c, empty pieces kept
RECURSIVE Split(_, _)
Split(s, c) ==
    LET i == Find(s, c)
    IN  IF i = 0 THEN <<s>>
        ELSE <<SubSeq(s, 1, i - 1)>> \o Split(SubSeq(s, i + 1, Len(s)), c)

\* s.split(c, 1): cut at the first occurrence of c only
SplitOnce(s, c) ==
    LET i == Find(s, c)
    IN  IF i = 0 THEN <<s>>
        ELSE <<SubSeq(s, 1, i - 1), SubSeq(s, i + 1, Len(s))>>

RECURSIVE LStrip(_)
LStrip(s) ==
    IF s # <<>> /\ IsSpace(Head(s)) THEN LStrip(Tail(s)) ELSE s

RECURSIVE RStrip(_)
RStrip(s) ==
    IF s # <<>> /\ IsSpace(s[Len(s)]) THEN RStrip(SubSeq(s, 1, Len(s) - 1)) ELSE s

\* s.strip()
Strip(s) == RStrip(LStrip(s))

\* the index of the first whitespace character of s, 0 when there is none
RECURSIVE FindSpace(_, _)
FindSpace(s, i) ==
    IF i > Len(s) THEN 0
    ELSE IF IsSpace(s[i]) THEN i
    ELSE FindSpace(s, i + 1)

\* s.split(): the maximal runs of non-whitespace characters
RECURSIVE SplitWs(_)
SplitWs(s) ==
    LET t == LStrip(s)
        i == FindSpace(t, 1)
    IN  IF t = <<>> THEN <<>>
        ELSE IF i = 0 THEN <<t>>
        ELSE <<SubSeq(t, 1, i - 1)>> \o SplitWs(SubSeq(t, i + 1, Len(t)))

\* s.split(maxsplit=1): the first run, then the rest from its first
\* non-whitespace character on (trailing whitespace kept)
SplitWsOnce(s) ==
    LET t == LStrip(s)
        i == FindSpace(t, 1)
        r == IF i = 0 THEN <<>> ELSE LStrip(SubSeq(t, i + 1, Len(t)))
    IN  IF t = <<>> THEN <<>>
        ELSE IF i = 0 \/ r = <<>> THEN <<RStrip(t)>>
        ELSE <<SubSeq(t, 1, i - 1), r>>

\* int(s) raises ValueError unless s is a decimal numeral (the alphabet has no
\* sign and no digit separator inside a piece)
IsInt(s) == s # <<>> /\ \A i \in 1..Len(s) : IsDigit(s[i])

RECURSIVE IntOf(_)
IntOf(s) ==
    IF s = <<>> THEN 0
    ELSE 10 * IntOf(SubSeq(s, 1, Len(s) - 1)) + DigitValue(s[Len(s)])

\* f"{n}" for a non-negative int
RECURSIVE Str(_)
Str(n) ==
    IF n < 10 THEN <<Digits[n + 1]>>
    ELSE Str(n \div 10) \o <<Digits[(n % 10) + 1]>>

\* c.lower() on the capital letters the alphabet holds
LowerChar(c) ==
    CASE c = "O" -> "o"
      [] c = "S" -> "s"
      [] c = "F" -> "f"
      [] c = "A" -> "a"
      [] c = "Q" -> "q"
      [] c = "M" -> "m"
      [] c = "P" -> "p"
      [] OTHER -> c

Lower(s) == [i \in 1..Len(s) |-> LowerChar(s[i])]

----------------------------------------------------------------------------
(* Literals of the source *)

\* CONFIG['admin_ids'] of the deployment that is modelled, in list order:
\* users 1 and 3 administer, user 2 does not
CONFIG_admin_ids == <<1, 3>>
Users == {1, 2, 3}

WAITING_FOR_QUESTION == 0
\* ConversationHandler.END: the conversation of the user is over (no state kept)
END == -1

L_faq == <<"f", "a", "q">>
L_helpful == <<"h", "e", "l", "p", "f", "u", "l">>
L_not == <<"n", "o", "t">>
L_create == <<"c", "r", "e", "a", "t", "e">>
L_ticket == <<"t", "i", "c", "k", "e", "t">>
L_from == <<"f", "r", "o", "m">>
L_admin == <<"a", "d", "m", "i", "n">>
L_action == <<"a", "c", "t", "i", "o", "n">>
L_in == <<"i", "n">>
L_progress == <<"p", "r", "o", "g", "r", "e", "s", "s">>
L_close == <<"c", "l", "o", "s", "e">>
L_respond == <<"r", "e", "s", "p", "o", "n", "d">>
L_add == <<"a", "d", "d">>
L_edit == <<"e", "d", "i", "t">>
L_view == <<"v", "i", "e", "w">>
L_delete == <<"d", "e", "l", "e", "t", "e">>
L_question == <<"q", "u", "e", "s", "t", "i", "o", "n">>
L_answer == <<"a", "n", "s", "w", "e", "r">>
L_category == <<"c", "a", "t", "e", "g", "o", "r", "y">>
L_back == <<"b", "a", "c", "k">>
L_all == <<"a", "l", "l">>
L_open == <<"o", "p", "e", "n">>
L_tickets == <<"t", "i", "c", "k", "e", "t", "s">>
L_stats == <<"s", "t", "a", "t", "s">>
L_list == <<"l", "i", "s", "t">>
L_general == <<"g", "e", "n", "e", "r", "a", "l">>
U == <<"_">>

\* the pieces of a literal joined by "_"
RECURSIVE Join(_)
Join(ps) ==
    IF Len(ps) = 1 THEN ps[1] ELSE ps[1] \o U \o Join(Tail(ps))

\* the action literals handle_ticket_action compares with
A_in_progress == Join(<<L_in, L_progress>>)
A_close == L_close
A_respond == L_respond

\* callback_data prefixes and literals of faq_callback and admin_callback
P_faq_ == L_faq \o U
P_faq_helpful_ == Join(<<L_faq, L_helpful>>) \o U
P_faq_not_helpful_ == Join(<<L_faq, L_not, L_helpful>>) \o U
P_create_ticket_from_faq == Join(<<L_create, L_ticket, L_from, L_faq>>)
P_admin_ == L_admin \o U
P_ticket_ == L_ticket \o U
P_ticket_action_ == Join(<<L_ticket, L_action>>) \o U
P_admin_back == Join(<<L_admin, L_back>>)
P_admin_all_tickets == Join(<<L_admin, L_all, L_tickets>>)
P_admin_open_tickets == Join(<<L_admin, L_open, L_tickets>>)
P_admin_stats == Join(<<L_admin, L_stats>>)
P_admin_faq == Join(<<L_admin, L_faq>>)
P_admin_faq_list == Join(<<L_admin, L_faq, L_list>>)
P_admin_faq_add == Join(<<L_admin, L_faq, L_add>>)
P_admin_faq_view_ == Join(<<L_admin, L_faq, L_view>>) \o U
P_admin_faq_edit_question_ == Join(<<L_admin, L_faq, L_edit, L_question>>) \o U
P_admin_faq_edit_answer_ == Join(<<L_admin, L_faq, L_edit, L_answer>>) \o U
P_admin_faq_edit_category_ == Join(<<L_admin, L_faq, L_edit, L_category>>) \o U
P_admin_faq_delete_ == Join(<<L_admin, L_faq, L_delete>>) \o U

\* "Создать заявку", "FAQ", "Мои заявки", "Помощь": the menu labels
T_create_ticket ==
    <<"S", "o", "z", "d", "a", "t", "'", " ", "z", "a", "q", "v", "k", "u">>
T_faq == <<"F", "A", "Q">>
T_my_tickets == <<"M", "o", "i", " ", "z", "a", "q", "v", "k", "i">>
T_help == <<"P", "o", "m", "o", "s", "4", "'">>
\* "ответ #": the reply shorthand's prefix; "Ответ получен": its placeholder
T_reply_prefix == <<"o", "t", "v", "e", "t", " ", "#">>
T_reply_placeholder ==
    <<"O", "t", "v", "e", "t", " ", "p", "o", "l", "u", "4", "e", "n">>

\* a length check that lets a question of 9 characters through
MinQuestionLen_off_by_one == 10 - 1

\* the shortest question new_ticket_receive and handle_text accept
MinQuestionLen == 10

----------------------------------------------------------------------------
(* The store: tickets.json, faq.json, stats.json *)

\* A ticket record keeps the fields the handlers read back.  created_at and
\* updated_at are datetime.now() stamps: records are only ever appended, so
\* created_at grows along the list, and a sort on it with reverse=True is the
\* list reversed.
Ticket(id, user_id, question) ==
    [id |-> id, user_id |-> user_id, question |-> question, status |-> "open",
     admin_id |-> None, admin_response |-> None]

FaqItem(id, question, answer, category) ==
    [id |-> id, question |-> question, answer |-> answer, category |-> category,
     usage_count |-> 0]

Max(S) == CHOOSE x \in S : \A y \in S : y <= x

Ids(data) == {data[i].id : i \in 1..Len(data)}

\* ids counted from 0 in an empty collection
get_next_id_from_zero(data) ==
    IF data = <<>> THEN 0 ELSE Max(Ids(data)) + 1

get_next_id(data) ==
    IF data = <<>> THEN 1 ELSE Max(Ids(data)) + 1

\* the position of the first record of data with this id, 0 when there is none
IndexOfId(data, id) ==
    IF id \in Ids(data)
    THEN CHOOSE i \in 1..Len(data) :
            data[i].id = id /\ \A j \in 1..(i - 1) : data[j].id # id
    ELSE 0

RECURSIVE Reverse(_)
Reverse(q) ==
    IF q = <<>> THEN <<>> ELSE Append(Reverse(Tail(q)), Head(q))

\* f"{action}:{details}" if details else action: details 0 and None are falsy
LogEntry(data, user_id, action, details) ==
    [id |-> get_next_id(data), user_id |-> user_id, action |-> action,
     details |-> IF details = None \/ details = Some(0) THEN None ELSE details]

\* the files' content a handler that cached it on entry would work on
load_json_file_at_entry(s, file) == s.entry[file]

\* load_json_file: the list the file holds now (a file that holds no JSON
\* document is modelled as the list it is read as: the default, [])
load_json_file(s, file) == s[file]

\* save_json_file: the file holds data afterwards; when disk is "denied",
\* open() raises and the file is as it was; when it is "torn", open() has
\* truncated the file and json.dump raises, so that the file is read as [].
\* The failure is logged and False is returned, which no caller reads.
save_json_file(s, file, data) ==
    CASE s.disk = "ok" -> [s EXCEPT ![file] = data]
      [] s.disk = "denied" -> s
      [] s.disk = "torn" -> [s EXCEPT ![file] = <<>>]

log_action(s, user_id, action, details) ==
    LET loaded == load_json_file(s, "stats")
    IN  save_json_file(s, "stats", Append(loaded, LogEntry(loaded, user_id, action, details)))

create_ticket(s, user_id, question) ==
    LET loaded == load_json_file(s, "tickets")
        ticket_id == get_next_id(loaded)
        saved == save_json_file(s, "tickets",
                                Append(loaded, Ticket(ticket_id, user_id, question)))
        issued == [saved EXCEPT !.ret = ticket_id,
                                !.issued = Append(@, [coll |-> "tickets", id |-> ticket_id])]
    IN  log_action(issued, user_id, "ticket_created", Some(ticket_id))

get_user_tickets(data, user_id) ==
    Reverse(SelectSeq(data, LAMBDA t : t.user_id = user_id))

\* status is None (no filter) or Some(status)
get_all_tickets(data, status) ==
    IF status = None THEN Reverse(data)
    ELSE Reverse(SelectSeq(data, LAMBDA t : t.status = status[1]))

\* the ticket as Some(record), or None
get_ticket_by_id(data, ticket_id) ==
    LET i == IndexOfId(data, ticket_id)
    IN  IF i = 0 THEN None ELSE Some(data[i])

\* admin_id and response are None or Some(value); None leaves the field alone
\* an update that adds the ticket when no ticket has the id
update_ticket_status_or_insert(s, ticket_id, status, admin_id, response) ==
    LET loaded == load_json_file(s, "tickets")
        i == IndexOfId(loaded, ticket_id)
        changed == [status |-> status,
                    admin_id |-> IF admin_id # None THEN admin_id ELSE None,
                    admin_response |-> IF response # None THEN response ELSE None]
    IN  IF i = 0
        THEN save_json_file(s, "tickets",
                 Append(loaded, [Ticket(ticket_id, 0, <<>>) EXCEPT
                                    !.status = changed.status,
                                    !.admin_id = changed.admin_id,
                                    !.admin_response = changed.admin_response]))
        ELSE save_json_file(s, "tickets",
                 [loaded EXCEPT ![i].status = status,
                                ![i].admin_id = IF admin_id # None THEN admin_id ELSE @,
                                ![i].admin_response = IF response # None THEN response ELSE @])

\* an update that files a closed ticket as cancelled
update_ticket_status_cancelling(s, ticket_id, status, admin_id, response) ==
    LET loaded == load_json_file(s, "tickets")
        i == IndexOfId(loaded, ticket_id)
    IN  IF i = 0 THEN save_json_file(s, "tickets", loaded)
        ELSE save_json_file(s, "tickets",
                 [loaded EXCEPT ![i].status = IF status = "closed" THEN "cancelled" ELSE status,
                                ![i].admin_id = IF admin_id # None THEN admin_id ELSE @,
                                ![i].admin_response = IF response # None THEN response ELSE @])

update_ticket_status(s, ticket_id, status, admin_id, response) ==
    LET loaded == load_json_file(s, "tickets")
        i == IndexOfId(loaded, ticket_id)
    IN  IF i = 0 THEN save_json_file(s, "tickets", loaded)
        ELSE save_json_file(s, "tickets",
                 [loaded EXCEPT ![i].status = status,
                                ![i].admin_id = IF admin_id # None THEN admin_id ELSE @,
                                ![i].admin_response = IF response # None THEN response ELSE @])

\* list.sort(key=usage_count, reverse=True): stable, equal counts keep their order
RECURSIVE InsertByUsage(_, _)
InsertByUsage(sorted, item) ==
    IF sorted = <<>> THEN <<item>>
    ELSE IF Head(sorted).usage_count >= item.usage_count
         THEN <<Head(sorted)>> \o InsertByUsage(Tail(sorted), item)
         ELSE <<item>> \o sorted

RECURSIVE SortByUsage(_)
SortByUsage(q) ==
    IF q = <<>> THEN <<>>
    ELSE InsertByUsage(SortByUsage(SubSeq(q, 1, Len(q) - 1)), q[Len(q)])

\* category is None (no filter) or Some(category)
get_faq_items(data, category) ==
    IF category = None \/ category = Some(<<>>) THEN SortByUsage(data)
    ELSE SortByUsage(SelectSeq(data, LAMBDA f : f.category = category[1]))

get_faq_by_id(data, faq_id) ==
    LET i == IndexOfId(data, faq_id)
    IN  IF i = 0 THEN None ELSE Some(data[i])

\* an add that numbers the new entry by the length of the list
add_faq_numbered_by_length(s, question, answer, category) ==
    LET loaded == load_json_file(s, "faq_items")
        faq_id == Len(loaded) + 1
        saved == save_json_file(s, "faq_items",
                                Append(loaded, FaqItem(faq_id, question, answer, category)))
    IN  [saved EXCEPT !.ret = faq_id,
                      !.issued = Append(@, [coll |-> "faq", id |-> faq_id])]

add_faq(s, question, answer, category) ==
    LET loaded == load_json_file(s, "faq_items")
        faq_id == get_next_id(loaded)
        saved == save_json_file(s, "faq_items",
                                Append(loaded, FaqItem(faq_id, question, answer, category)))
    IN  [saved EXCEPT !.ret = faq_id,
                      !.issued = Append(@, [coll |-> "faq", id |-> faq_id])]

\* an update that writes the value into the field of every entry
update_faq_every_entry(s, faq_id, field, value) ==
    LET loaded == load_json_file(s, "faq_items")
        i == IndexOfId(loaded, faq_id)
    IN  IF i = 0 THEN [s EXCEPT !.ret = FALSE]
        ELSE [save_json_file(s, "faq_items",
                             [j \in 1..Len(loaded) |-> [loaded[j] EXCEPT ![field] = value]])
                 EXCEPT !.ret = TRUE]

\* field is "question", "answer" or "category": the one keyword handle_text passes
update_faq(s, faq_id, field, value) ==
    LET loaded == load_json_file(s, "faq_items")
        i == IndexOfId(loaded, faq_id)
    IN  IF i = 0 THEN [s EXCEPT !.ret = FALSE]
        ELSE [save_json_file(s, "faq_items", [loaded EXCEPT ![i][field] = value])
                 EXCEPT !.ret = TRUE]

delete_faq(s, faq_id) ==
    LET loaded == load_json_file(s, "faq_items")
        kept == SelectSeq(loaded, LAMBDA f : f.id # faq_id)
    IN  IF Len(kept) < Len(loaded)
        THEN [save_json_file(s, "faq_items", kept) EXCEPT !.ret = TRUE]
        ELSE [s EXCEPT !.ret = FALSE]

\* a usage counter kept per collection instead of per entry
increment_faq_usage_of_all(s, faq_id) ==
    IF IndexOfId(s.faq_items, faq_id) = 0 THEN s
    ELSE [s EXCEPT !.faq_items = [i \in 1..Len(@) |-> [@[i] EXCEPT !.usage_count = @ + 1]]]

increment_faq_usage(s, faq_id) ==
    LET loaded == load_json_file(s, "faq_items")
        i == IndexOfId(loaded, faq_id)
    IN  IF i = 0 THEN save_json_file(s, "faq_items", loaded)
        ELSE save_json_file(s, "faq_items", [loaded EXCEPT ![i].usage_count = @ + 1])

is_admin(user_id) ==
    \E i \in 1..Len(CONFIG_admin_ids) : CONFIG_admin_ids[i] = user_id

----------------------------------------------------------------------------
(* Handlers.  A handler is a function of a frame s: the three collections,    *)
(* the sender's user_data (ud), the handler's return value (ret), and what    *)
(* it sent: replies to the sender, messages to others (sent), and whether an  *)
(* exception left the handler (raised).                                       *)

Reply(s, what) == [s EXCEPT !.replies = Append(@, what)]

Return(s, value) == [s EXCEPT !.ret = value]

Raise(s) == [s EXCEPT !.raised = TRUE]

\* bot.send_message(to, ...) about a ticket: it raises for a recipient in fail
\* seen is the ticket as the store holds it when the delivery is attempted
Send(fail, s, to, kind, ticket_id, text) ==
    [s EXCEPT !.sent = Append(@, [to |-> to, kind |-> kind, ticket |-> ticket_id,
                                  text |-> text, delivered |-> to \notin fail,
                                  seen |-> get_ticket_by_id(s.tickets, ticket_id)])]

\* a loop that the first failed delivery ends
RECURSIVE NotifyAdmins_until_failure(_, _, _, _, _)
NotifyAdmins_until_failure(fail, s, admins, ticket_id, question) ==
    IF admins = <<>> THEN s
    ELSE IF Head(admins) \in fail
    THEN Send(fail, s, Head(admins), "new_ticket", ticket_id, question)
    ELSE NotifyAdmins_until_failure(
             fail, Send(fail, s, Head(admins), "new_ticket", ticket_id, question),
             Tail(admins), ticket_id, question)

\* for admin_id in CONFIG['admin_ids']: try send_message except log
RECURSIVE NotifyAdmins(_, _, _, _, _)
NotifyAdmins(fail, s, admins, ticket_id, question) ==
    IF admins = <<>> THEN s
    ELSE NotifyAdmins(fail, Send(fail, s, Head(admins), "new_ticket", ticket_id, question),
                      Tail(admins), ticket_id, question)

start(s, u) ==
    log_action(Reply(s, "welcome"), u, "start", None)

help_command(s, u) ==
    log_action(Reply(s, "help"), u, "help", None)

faq_command(s, u) ==
    IF get_faq_items(s.faq_items, None) = <<>>
    THEN Reply(s, "faq_empty")
    ELSE log_action(Reply(s, "faq_list"), u, "faq_viewed", None)

my_tickets(s, u) ==
    IF get_user_tickets(s.tickets, u) = <<>>
    THEN Reply(s, "no_tickets")
    ELSE log_action(Reply(s, "my_tickets"), u, "tickets_viewed", None)

admin_panel(s, u) ==
    IF ~is_admin(u)
    THEN Reply(s, "no_access")
    ELSE log_action(Reply(s, "admin_panel"), u, "admin_panel", None)

new_ticket_start(s) ==
    Return(Reply(s, "ask_question"), WAITING_FOR_QUESTION)

new_ticket_receive(fail, s, u, text) ==
    IF Len(text) < MinQuestionLen
    THEN Return(Reply(s, "too_short"), WAITING_FOR_QUESTION)
    ELSE LET created == create_ticket(s, u, text)
             ticket_id == created.ret
             told == Reply(created, "ticket_created")
         IN  Return(NotifyAdmins(fail, told, CONFIG_admin_ids, ticket_id, text), END)

FlowKeys ==
    <<"adding_faq", "faq_question", "faq_answer", "editing_faq_id",
      "editing_faq_type", "responding_to_ticket", "waiting_for_ticket">>

RECURSIVE PopAll(_, _)
PopAll(d, keys) ==
    IF keys = <<>> THEN d ELSE PopAll(Pop(d, Head(keys)), Tail(keys))

\* a cancel that also withdraws the ticket filed last
cancel_withdrawing(s) ==
    Return(Reply([s EXCEPT !.ud = PopAll(@, FlowKeys),
                           !.tickets = SubSeq(@, 1, Len(@) - 1)], "cancelled"), END)

cancel(s) ==
    Return(Reply([s EXCEPT !.ud = PopAll(@, FlowKeys)], "cancelled"), END)

faq_callback(s, u, data) ==
    LET parts == Split(data, "_")
    IN  IF StartsWith(data, P_faq_helpful_)
        THEN IF ~IsInt(parts[3]) THEN Raise(s)
             ELSE log_action(Reply(s, "thanks"), u, "faq_helpful", Some(IntOf(parts[3])))
        ELSE IF StartsWith(data, P_faq_not_helpful_)
        THEN IF ~IsInt(parts[4]) THEN Raise(s)
             ELSE LET logged == log_action(s, u, "faq_not_helpful", Some(IntOf(parts[4])))
                  IN  [Reply(logged, "ask_question") EXCEPT
                          !.ud = Put(@, "waiting_for_ticket", TRUE)]
        ELSE IF data = P_create_ticket_from_faq
        THEN [Reply(s, "ask_question") EXCEPT !.ud = Put(@, "waiting_for_ticket", TRUE)]
        ELSE IF ~IsInt(parts[2]) THEN Raise(s)
        ELSE LET faq_id == IntOf(parts[2])
             IN  IF get_faq_by_id(s.faq_items, faq_id) # None
                 THEN log_action(Reply(increment_faq_usage(s, faq_id), "faq_answer"),
                                 u, "faq_used", Some(faq_id))
                 ELSE Reply(s, "faq_not_found")

\* faq_callback on "faq_<id>", from the first await to the await of
\* edit_message_text: the entry is looked up and counted
faq_callback_until_edit(s, data) ==
    LET parts == Split(data, "_")
    IN  IF ~IsInt(parts[2]) THEN Raise(s)
        ELSE IF get_faq_by_id(load_json_file(s, "faq_items"), IntOf(parts[2])) # None
        THEN Reply(increment_faq_usage(s, IntOf(parts[2])), "faq_answer")
        ELSE Reply(s, "faq_not_found")

\* faq_callback on "faq_<id>" of an entry that was found, after the await of
\* edit_message_text: the view is logged
faq_callback_after_edit(s, u, data) ==
    log_action(s, u, "faq_used", Some(IntOf(Split(data, "_")[2])))

\* the callback_data of the buttons show_ticket_details puts under a ticket
ClaimButton(ticket_id) == P_ticket_action_ \o Str(ticket_id) \o U \o A_in_progress
CloseButton(ticket_id) == P_ticket_action_ \o Str(ticket_id) \o U \o A_close
RespondButton(ticket_id) == P_ticket_action_ \o Str(ticket_id) \o U \o A_respond

TicketButtons(ticket) ==
    (IF ticket.status = "open" THEN {ClaimButton(ticket.id)} ELSE {})
    \cup (IF ticket.status # "closed" THEN {CloseButton(ticket.id)} ELSE {})
    \cup {RespondButton(ticket.id)}

show_ticket_details(s, ticket_id) ==
    IF get_ticket_by_id(s.tickets, ticket_id) = None
    THEN Reply(s, "ticket_not_found")
    ELSE Reply(s, "ticket_details")

\* handle_ticket_action with a respond branch that also marks the ticket as
\* taken in work while the administrator writes the answer
handle_ticket_action_respond_claims(fail, s, u, ticket_id, action) ==
    IF action = A_in_progress
    THEN show_ticket_details(
             Reply(update_ticket_status(s, ticket_id, "in_progress", Some(u), None),
                   "taken"),
             ticket_id)
    ELSE IF action = A_close
    THEN LET closed == Reply(update_ticket_status(s, ticket_id, "closed", Some(u), None),
                             "closed")
             ticket == get_ticket_by_id(closed.tickets, ticket_id)
             told == IF ticket # None
                     THEN Send(fail, closed, ticket[1].user_id, "closed", ticket_id, None)
                     ELSE closed
         IN  show_ticket_details(told, ticket_id)
    ELSE IF action = A_respond
    THEN [Reply(update_ticket_status(s, ticket_id, "in_progress", Some(u), None),
                "ask_response")
             EXCEPT !.ud = Put(@, "responding_to_ticket", ticket_id)]
    ELSE s

handle_ticket_action(fail, s, u, ticket_id, action) ==
    IF action = A_in_progress
    THEN show_ticket_details(
             Reply(update_ticket_status(s, ticket_id, "in_progress", Some(u), None),
                   "taken"),
             ticket_id)
    ELSE IF action = A_close
    THEN LET closed == Reply(update_ticket_status(s, ticket_id, "closed", Some(u), None),
                             "closed")
             ticket == get_ticket_by_id(closed.tickets, ticket_id)
             told == IF ticket # None
                     THEN Send(fail, closed, ticket[1].user_id, "closed", ticket_id, None)
                     ELSE closed
         IN  show_ticket_details(told, ticket_id)
    ELSE IF action = A_respond
    THEN [Reply(s, "ask_response") EXCEPT !.ud = Put(@, "responding_to_ticket", ticket_id)]
    ELSE s

\* data.split('_')[n] of the id-carrying branches: the piece, or no piece
Piece(parts, n) == IF n + 1 <= Len(parts) THEN Some(parts[n + 1]) ELSE None

\* the pieces from the fourth on, joined again: the whole text after the id
ticket_action_rest(parts) ==
    IF Len(parts) < 4 THEN None ELSE Some(Join(SubSeq(parts, 4, Len(parts))))

\* action = parts[3]: IndexError (None) when the payload has no fourth piece
ticket_action(parts) == Piece(parts, 3)

StartEdit(s, faq_id, type) ==
    [Reply(s, "ask_edit") EXCEPT
        !.ud = Put(Put(@, "editing_faq_id", faq_id), "editing_faq_type", type)]

admin_faq_add_start(s) ==
    [Reply(s, "ask_faq_question") EXCEPT !.ud = Put(@, "adding_faq", TRUE)]

admin_faq_delete(s, faq_id) ==
    LET done == delete_faq(s, faq_id)
    IN  IF done.ret THEN Reply(done, "faq_deleted") ELSE Reply(done, "faq_delete_error")

admin_faq_view(s, faq_id) ==
    IF get_faq_by_id(s.faq_items, faq_id) = None
    THEN Reply(s, "faq_not_found")
    ELSE Reply(s, "faq_details")

\* int(data.split('_')[n]) and then f(id): ValueError leaves the handler
WithId(s, parts, n, f(_)) ==
    IF Piece(parts, n) = None \/ ~IsInt(Piece(parts, n)[1]) THEN Raise(s)
    ELSE f(IntOf(Piece(parts, n)[1]))

\* the elif chain of admin_callback, from the admin_back branch on
admin_actions(fail, s, u, data) ==
    LET parts == Split(data, "_")
    IN  IF data = P_admin_back THEN Reply(s, "admin_panel")
        ELSE IF data = P_admin_all_tickets THEN Reply(s, "tickets_list")
        ELSE IF data = P_admin_open_tickets THEN Reply(s, "tickets_list")
        ELSE IF data = P_admin_stats THEN Reply(s, "stats")
        ELSE IF data = P_admin_faq THEN Reply(s, "faq_panel")
        ELSE IF data = P_admin_faq_list THEN Reply(s, "faq_admin_list")
        ELSE IF data = P_admin_faq_add THEN admin_faq_add_start(s)
        ELSE IF StartsWith(data, P_admin_faq_view_)
        THEN WithId(s, parts, 3, LAMBDA id : admin_faq_view(s, id))
        ELSE IF StartsWith(data, P_admin_faq_edit_question_)
        THEN WithId(s, parts, 4, LAMBDA id : StartEdit(s, id, "question"))
        ELSE IF StartsWith(data, P_admin_faq_edit_answer_)
        THEN WithId(s, parts, 4, LAMBDA id : StartEdit(s, id, "answer"))
        ELSE IF StartsWith(data, P_admin_faq_edit_category_)
        THEN WithId(s, parts, 4, LAMBDA id : StartEdit(s, id, "category"))
        ELSE IF StartsWith(data, P_admin_faq_delete_)
        THEN WithId(s, parts, 3, LAMBDA id : admin_faq_delete(s, id))
        ELSE IF StartsWith(data, P_ticket_) /\ ~StartsWith(data, P_ticket_action_)
        THEN WithId(s, parts, 1, LAMBDA id : show_ticket_details(s, id))
        ELSE IF StartsWith(data, P_ticket_action_)
        THEN WithId(s, parts, 2,
                    LAMBDA id : IF ticket_action(parts) = None THEN Raise(s)
                                ELSE handle_ticket_action(fail, s, u, id,
                                                          ticket_action(parts)[1]))
        ELSE s

\* admin_callback without its is_admin test: the buttons are hidden from the
\* menu of a user who is no administrator, and that is all
admin_callback_unchecked(fail, s, u, data) ==
    admin_actions(fail, s, u, data)

admin_callback(fail, s, u, data) ==
    IF ~is_admin(u) THEN Reply(s, "no_access")
    ELSE admin_actions(fail, s, u, data)

\* an answer that closes the ticket only once the owner has been reached
AnswerTicket_closing_on_delivery(fail, s, u, ticket_id, response_text) ==
    LET ticket == get_ticket_by_id(s.tickets, ticket_id)
    IN  IF ticket # None
        THEN LET told == Send(fail, s, ticket[1].user_id, "reply", ticket_id,
                              Some(response_text))
             IN  IF ticket[1].user_id \notin fail
                 THEN Reply(update_ticket_status(told, ticket_id, "closed", Some(u),
                                                 Some(response_text)), "reply_sent")
                 ELSE Reply(told, "send_error")
        ELSE Reply(s, "ticket_not_found")

\* the admin's reply to a ticket: close it with the text, then tell its owner
AnswerTicket(fail, s, u, ticket_id, response_text) ==
    LET ticket == get_ticket_by_id(s.tickets, ticket_id)
    IN  IF ticket # None
        THEN LET closed == update_ticket_status(s, ticket_id, "closed", Some(u),
                                                Some(response_text))
                 told == Send(fail, closed, ticket[1].user_id, "reply", ticket_id,
                              Some(response_text))
             IN  IF ticket[1].user_id \notin fail
                 THEN Reply(told, "reply_sent")
                 ELSE Reply(told, "send_error")
        ELSE Reply(s, "ticket_not_found")

\* the category taken as typed, blanks and all
CategoryOf_untrimmed(text) == IF text = <<>> THEN L_general ELSE text

\* text.strip() or 'general'
CategoryOf(text) == IF Strip(text) = <<>> THEN L_general ELSE Strip(text)

AddFaqStep(s, text) ==
    IF ~Has(s.ud, "faq_question")
    THEN [Reply(s, "ask_faq_answer") EXCEPT !.ud = Put(@, "faq_question", text)]
    ELSE IF ~Has(s.ud, "faq_answer")
    THEN [Reply(s, "ask_faq_category") EXCEPT !.ud = Put(@, "faq_answer", text)]
    ELSE LET question == s.ud["faq_question"]
             answer == s.ud["faq_answer"]
             done == IF question # <<>> /\ answer # <<>>
                     THEN Reply(add_faq(s, question, answer, CategoryOf(text)), "faq_added")
                     ELSE Reply(s, "faq_add_error")
         IN  [done EXCEPT !.ud = Pop(Pop(Pop(@, "adding_faq"), "faq_question"),
                                     "faq_answer")]

EditFaqStep(s, text) ==
    LET faq_id == s.ud["editing_faq_id"]
        edit_type == s.ud["editing_faq_type"]
        value == IF edit_type = "category" THEN CategoryOf(text) ELSE text
        done == IF edit_type \in {"question", "answer", "category"}
                THEN LET updated == update_faq(s, faq_id, edit_type, value)
                     IN  IF updated.ret THEN Reply(updated, "faq_updated")
                         ELSE Reply(updated, "faq_update_error")
                ELSE s
    IN  [done EXCEPT !.ud = Pop(Pop(@, "editing_faq_id"), "editing_faq_type")]

\* the reply shorthand taking the word after the id as the whole response
ReplyShorthand_one_word(fail, s, u, text) ==
    LET parts == SplitOnce(text, "#")
        words == SplitWs(Strip(parts[2]))
    IN  IF Len(parts) # 2 THEN s
        ELSE IF words = <<>> \/ ~IsInt(words[1]) THEN Reply(s, "error")
        ELSE AnswerTicket(fail, s, u, IntOf(words[1]),
                          IF Len(words) > 1 THEN words[2] ELSE T_reply_placeholder)

\* "ответ #<id> <text>": everything between try and except Exception
ReplyShorthand(fail, s, u, text) ==
    LET parts == SplitOnce(text, "#")
        words == SplitWs(Strip(parts[2]))
    IN  IF Len(parts) # 2 THEN s
        ELSE IF words = <<>> \/ ~IsInt(words[1]) THEN Reply(s, "error")
        ELSE LET ticket_id == IntOf(words[1])
                 response_text == IF Len(words) > 1
                                  THEN SplitWsOnce(Strip(parts[2]))[2]
                                  ELSE T_reply_placeholder
             IN  AnswerTicket(fail, s, u, ticket_id, response_text)

\* a text handler that tries the administrator's flows before the menu labels
handle_text_flows_first(fail, s, u, text) ==
    IF Truthy(s.ud, "waiting_for_ticket")
    THEN LET off == [s EXCEPT !.ud = Put(@, "waiting_for_ticket", FALSE)]
         IN  IF Len(text) < MinQuestionLen
             THEN [Reply(off, "too_short") EXCEPT !.ud = Put(@, "waiting_for_ticket", TRUE)]
             ELSE LET created == create_ticket(off, u, text)
                      told == Reply(created, "ticket_created")
                  IN  Return(NotifyAdmins(fail, told, CONFIG_admin_ids, created.ret, text),
                             None)
    ELSE IF is_admin(u) /\ Truthy(s.ud, "adding_faq") THEN AddFaqStep(s, text)
    ELSE IF is_admin(u) /\ Has(s.ud, "editing_faq_id") /\ Has(s.ud, "editing_faq_type")
    THEN EditFaqStep(s, text)
    ELSE IF is_admin(u) /\ Has(s.ud, "responding_to_ticket")
    THEN AnswerTicket(fail, [s EXCEPT !.ud = Pop(@, "responding_to_ticket")], u,
                      s.ud["responding_to_ticket"], text)
    ELSE IF text = T_create_ticket THEN new_ticket_start(s)
    ELSE IF text = T_faq THEN faq_command(s, u)
    ELSE IF text = T_my_tickets THEN my_tickets(s, u)
    ELSE IF text = T_help THEN help_command(s, u)
    ELSE IF is_admin(u)
            /\ (StartsWith(text, T_reply_prefix) \/ StartsWith(Lower(text), T_reply_prefix))
    THEN ReplyShorthand(fail, s, u, text)
    ELSE s

handle_text(fail, s, u, text) ==
    IF Truthy(s.ud, "waiting_for_ticket")
    THEN LET off == [s EXCEPT !.ud = Put(@, "waiting_for_ticket", FALSE)]
         IN  IF Len(text) < MinQuestionLen
             THEN [Reply(off, "too_short") EXCEPT !.ud = Put(@, "waiting_for_ticket", TRUE)]
             ELSE LET created == create_ticket(off, u, text)
                      told == Reply(created, "ticket_created")
                  IN  Return(NotifyAdmins(fail, told, CONFIG_admin_ids, created.ret, text),
                             None)
    ELSE IF text = T_create_ticket THEN new_ticket_start(s)
    ELSE IF text = T_faq THEN faq_command(s, u)
    ELSE IF text = T_my_tickets THEN my_tickets(s, u)
    ELSE IF text = T_help THEN help_command(s, u)
    ELSE IF is_admin(u)
    THEN IF Truthy(s.ud, "adding_faq") THEN AddFaqStep(s, text)
         ELSE IF Has(s.ud, "editing_faq_id") /\ Has(s.ud, "editing_faq_type")
         THEN EditFaqStep(s, text)
         ELSE IF Has(s.ud, "responding_to_ticket")
         THEN AnswerTicket(fail, [s EXCEPT !.ud = Pop(@, "responding_to_ticket")], u,
                           s.ud["responding_to_ticket"], text)
         ELSE IF StartsWith(text, T_reply_prefix) \/ StartsWith(Lower(text), T_reply_prefix)
         THEN ReplyShorthand(fail, s, u, text)
         ELSE s
    ELSE s

----------------------------------------------------------------------------
(* The dispatcher: main() registers every handler in one group, so an update *)
(* goes to the first handler, in registration order, that accepts it.        *)

\* the commands, as the texts that carry them
C_start == <<"/", "s", "t", "a", "r", "t">>
C_help == <<"/", "h", "e", "l", "p">>
C_faq == <<"/", "f", "a", "q">>
C_my_tickets == <<"/", "m", "y", "_", "t", "i", "c", "k", "e", "t", "s">>
C_admin == <<"/", "a", "d", "m", "i", "n">>
C_new == <<"/", "n", "e", "w">>
C_cancel == <<"/", "c", "a", "n", "c", "e", "l">>

\* the frame a handler starts from, for an update of user u
Files == [tickets |-> tickets, faq_items |-> faq_items, stats |-> stats]

Frame(u) ==
    [tickets |-> tickets, faq_items |-> faq_items, stats |-> stats,
     disk |-> disk, entry |-> Files,
     ud |-> user_data[u], ret |-> None, issued |-> <<>>,
     replies |-> <<>>, sent |-> <<>>, raised |-> FALSE]

\* ticket_conv runs a handler: its return value is the user's next state
\* (END drops the conversation); an update no handler accepts changes nothing
Handled(name, conv, r) == [handler |-> name, conv |-> conv, r |-> r]

\* a text message that is not a command
RouteText(fail, u, text) ==
    IF conversations[u] = END
    THEN IF text = T_create_ticket
         THEN LET r == new_ticket_start(Frame(u))
              IN  Handled("new_ticket_start", r.ret, r)
         ELSE Handled("handle_text", conversations[u], handle_text(fail, Frame(u), u, text))
    ELSE LET r == new_ticket_receive(fail, Frame(u), u, text)
         IN  Handled("new_ticket_receive", r.ret, r)

\* a command: the five CommandHandlers come first, then ticket_conv, whose
\* entry point /new is tried only outside a conversation and whose fallback
\* /cancel only inside one; handle_text filters commands out
RouteCommand(u, command) ==
    IF command = C_start THEN Handled("start", conversations[u], start(Frame(u), u))
    ELSE IF command = C_help
    THEN Handled("help_command", conversations[u], help_command(Frame(u), u))
    ELSE IF command = C_faq
    THEN Handled("faq_command", conversations[u], faq_command(Frame(u), u))
    ELSE IF command = C_my_tickets
    THEN Handled("my_tickets", conversations[u], my_tickets(Frame(u), u))
    ELSE IF command = C_admin
    THEN Handled("admin_panel", conversations[u], admin_panel(Frame(u), u))
    ELSE IF command = C_new /\ conversations[u] = END
    THEN LET r == new_ticket_start(Frame(u))
         IN  Handled("new_ticket_start", r.ret, r)
    ELSE IF command = C_cancel /\ conversations[u] # END
    THEN LET r == cancel(Frame(u))
         IN  Handled("cancel", r.ret, r)
    ELSE Handled("none", conversations[u], Frame(u))

\* a button press: the pattern of faq_callback is tried before admin_callback's
RouteButton(fail, u, data) ==
    IF StartsWith(data, P_faq_) \/ StartsWith(data, P_create_ticket_from_faq)
    THEN Handled("faq_callback", conversations[u], faq_callback(Frame(u), u, data))
    ELSE IF StartsWith(data, P_admin_) \/ StartsWith(data, P_ticket_)
    THEN Handled("admin_callback", conversations[u],
                 admin_callback(fail, Frame(u), u, data))
    ELSE Handled("none", conversations[u], Frame(u))

----------------------------------------------------------------------------
(* Bounds of the model *)

MaxTickets == 2
MaxFaq == 5
MaxLog == 2
MaxUsage == 1

WithinBounds(r) ==
    /\ Len(r.tickets) <= MaxTickets
    /\ Len(r.faq_items) <= MaxFaq
    /\ Len(r.stats) <= MaxLog
    /\ \A i \in 1..Len(r.faq_items) : r.faq_items[i].usage_count <= MaxUsage

----------------------------------------------------------------------------
(* State machine *)

\* add_default_faq: the four entries init_database seeds an empty FAQ with
\* (their texts shortened to a letter and the id)
default_faq ==
    [i \in 1..4 |-> FaqItem(i, <<"Q", Digits[i + 1]>>, <<"A", Digits[i + 1]>>, L_general)]

\* no handler of the user is suspended
Idle == [pc |-> "idle"]

NoUpdate ==
    [kind |-> "none", user |-> 0, data |-> <<>>, handler |-> "none",
     replies |-> <<>>, sent |-> <<>>, issued |-> <<>>, raised |-> FALSE]

Init ==
    /\ tickets = <<>>
    /\ faq_items = default_faq
    /\ stats = <<>>
    /\ user_data = [u \in Users |-> EmptyDict]
    /\ conversations = [u \in Users |-> END]
    /\ disk = "ok"
    /\ inflight = [u \in Users |-> Idle]
    /\ returned = [tickets |-> 0, faq |-> 0]
    /\ last = NoUpdate

HighestIssued(before, issued, coll) ==
    Max({before} \cup {issued[i].id : i \in {j \in 1..Len(issued) : issued[j].coll = coll}})

\* a dispatcher that keeps one session for all users
Dispatch_one_session(kind, u, data, h) ==
    /\ WithinBounds(h.r)
    /\ tickets' = h.r.tickets
    /\ faq_items' = h.r.faq_items
    /\ stats' = h.r.stats
    /\ user_data' = [x \in Users |-> h.r.ud]
    /\ conversations' = [conversations EXCEPT ![u] = h.conv]
    /\ returned' = [tickets |-> HighestIssued(returned.tickets, h.r.issued, "tickets"),
                    faq |-> HighestIssued(returned.faq, h.r.issued, "faq")]
    /\ last' = [kind |-> kind, user |-> u, data |-> data, handler |-> h.handler,
                replies |-> h.r.replies, sent |-> h.r.sent, issued |-> h.r.issued,
                raised |-> h.r.raised]
    /\ UNCHANGED <<disk, inflight>>

\* the dispatcher hands update (kind, u, data) to the handler h chose
Dispatch(kind, u, data, h) ==
    /\ WithinBounds(h.r)
    /\ tickets' = h.r.tickets
    /\ faq_items' = h.r.faq_items
    /\ stats' = h.r.stats
    /\ user_data' = [user_data EXCEPT ![u] = h.r.ud]
    /\ conversations' = [conversations EXCEPT ![u] = h.conv]
    /\ returned' = [tickets |-> HighestIssued(returned.tickets, h.r.issued, "tickets"),
                    faq |-> HighestIssued(returned.faq, h.r.issued, "faq")]
    /\ last' = [kind |-> kind, user |-> u, data |-> data, handler |-> h.handler,
                replies |-> h.r.replies, sent |-> h.r.sent, issued |-> h.r.issued,
                raised |-> h.r.raised]
    /\ UNCHANGED <<disk, inflight>>

Text(fail, u, text) == Dispatch("text", u, text, RouteText(fail, u, text))

Command(u, command) == Dispatch("command", u, command, RouteCommand(u, command))

Button(fail, u, data) == Dispatch("button", u, data, RouteButton(fail, u, data))

----------------------------------------------------------------------------
(* The updates the users send *)

\* "need help" has 9 characters, "need help!" has 10
T_short == <<"n", "e", "e", "d", " ", "h", "e", "l", "p">>
T_long == T_short \o <<"!">>
T_reply_1 == T_reply_prefix \o <<"1", " ", "o", "k">>

\* the administrator of CONFIG['admin_ids'] and a user who is not in it
Admin == CONFIG_admin_ids[1]
Customer == CHOOSE u \in Users : ~is_admin(u)

\* the recipients send_message fails for: any of the administrators, or the
\* customer
FailSets == (SUBSET {CONFIG_admin_ids[i] : i \in 1..Len(CONFIG_admin_ids)}) \cup {{Customer}}
\* a customer's update sends to administrators only, an administrator's to
\* the owner of a ticket only
AdminFailSets == {fail \in FailSets : Customer \notin fail}
OwnerFailSets == {fail \in FailSets : fail \subseteq {Customer}}

\* the ids the buttons of an administrator's (possibly stale) views carry
TicketIds == {1, 2}

(* The support desk: a customer opens tickets on every entry path, the      *)
(* administrator presses the buttons of ticket views, answers through the   *)
(* respond button and through the reply shorthand.                          *)

CustomerTexts == {T_short, T_long, T_create_ticket}
CustomerCommands == {C_new, C_cancel}
CustomerPayloads == {P_create_ticket_from_faq}
AdminTexts == {T_long, T_reply_1}
AdminPayloads ==
    UNION {{ClaimButton(t), CloseButton(t), RespondButton(t)} : t \in TicketIds}

CustomerText == \E text \in CustomerTexts, fail \in AdminFailSets : Text(fail, Customer, text)
CustomerCommand == \E command \in CustomerCommands : Command(Customer, command)
CustomerButton ==
    \E data \in CustomerPayloads, fail \in AdminFailSets : Button(fail, Customer, data)
AdminText == \E text \in AdminTexts, fail \in OwnerFailSets : Text(fail, Admin, text)
AdminButton == \E data \in AdminPayloads, fail \in OwnerFailSets : Button(fail, Admin, data)

Next ==
    \/ CustomerText
    \/ CustomerCommand
    \/ CustomerButton
    \/ AdminText
    \/ AdminButton

Spec == Init /\ [][Next]_vars

(* The administrator's sessions: one administrator starts every flow on    *)
(* every entry path, sends texts and the cancel command in any order, and  *)
(* manages the FAQ.                                                        *)

FlowTexts == {T_long, T_create_ticket}
FlowCommands == {C_new, C_cancel}
FlowPayloads ==
    {P_create_ticket_from_faq, P_faq_not_helpful_ \o Str(1), P_admin_faq_add,
     P_admin_faq_edit_question_ \o Str(1), P_admin_faq_delete_ \o Str(5),
     RespondButton(1)}

FlowText == \E text \in FlowTexts : Text({}, Admin, text)
FlowCommand == \E command \in FlowCommands : Command(Admin, command)
FlowButton == \E data \in FlowPayloads : Button({}, Admin, data)

NextFlows ==
    \/ FlowText
    \/ FlowCommand
    \/ FlowButton

SpecFlows == Init /\ [][NextFlows]_vars

(* A user outside the allow-list: the customer opens a ticket, then sends   *)
(* the payloads of the administrators' buttons and the administrators'      *)
(* texts; an administrator answers tickets meanwhile.                       *)

IntruderTexts == {T_create_ticket, T_long, T_reply_1}
IntruderPayloads ==
    {P_admin_faq_add, P_admin_faq_edit_question_ \o Str(1), P_admin_faq_delete_ \o Str(1),
     ClaimButton(1), CloseButton(1), RespondButton(1), P_faq_ \o Str(1)}

IntruderText == \E text \in IntruderTexts : Text({}, Customer, text)
IntruderButton == \E data \in IntruderPayloads : Button({}, Customer, data)
OwnerButton == Button({}, Admin, RespondButton(1))
OwnerText == Text({}, Admin, T_long)

NextIntruder ==
    \/ IntruderText
    \/ IntruderButton
    \/ OwnerButton
    \/ OwnerText

SpecIntruder == Init /\ [][NextIntruder]_vars

(* Answers: the customer opens tickets, an administrator answers them by    *)
(* the reply shorthand in its spellings, and through the respond button.    *)

\* "ответ #2": no text after the id
T_reply_bare == T_reply_prefix \o <<"2">>
\* "Ответ # 1  a b": a capital letter, blanks around the id, a text of two words
T_reply_spaced ==
    <<"O", "t", "v", "e", "t", " ", "#", " ", "1", " ", " ", "a", " ", "b">>

ReplyTexts == {T_reply_1, T_reply_bare, T_reply_spaced, T_long}

AskerText == \E text \in {T_create_ticket, T_long} : Text({}, Customer, text)
ReplierText == \E text \in ReplyTexts, fail \in {{}, {Customer}} : Text(fail, Admin, text)
ReplierButton == Button({}, Admin, RespondButton(1))

NextReplies ==
    \/ AskerText
    \/ ReplierText
    \/ ReplierButton

SpecReplies == Init /\ [][NextReplies]_vars

(* The FAQ: users open entries from the FAQ list (also through a stale list  *)
(* that shows an id no entry has), an administrator adds entries.            *)

\* texts of blanks only, and with blanks around a word
T_blank == <<" ", " ">>
T_padded == <<" ">> \o L_faq \o <<" ">>

FaqTexts == {T_blank, T_padded}
ViewedIds == {1, 2, 9}

ReaderButton == \E id \in ViewedIds : Button({}, Customer, P_faq_ \o Str(id))
EditorButton == Button({}, Admin, P_admin_faq_add)
EditorText == \E text \in FaqTexts : Text({}, Admin, text)

NextFaq ==
    \/ ReaderButton
    \/ EditorButton
    \/ EditorText

SpecFaq == Init /\ [][NextFaq]_vars

(* Overlapping handlers.  The application is built with concurrent_updates  *)
(* off, so that it runs one handler at a time; here the handlers of          *)
(* different users are nevertheless let overlap the way a build with         *)
(* concurrent_updates on would run them: a handler runs from one await to    *)
(* the next without interruption (one event loop, no threads), and any       *)
(* other handler may run while it is suspended.  The suspension points kept  *)
(* are those with store accesses between them:                               *)
(*   new_ticket_receive: create_ticket and log_action run before the first   *)
(*     await (reply_text); the notifications and the return follow;          *)
(*   admin_callback: everything follows the first await (query.answer);      *)
(*     the close branch saves the ticket and only reads afterwards;          *)
(*   faq_callback: increment_faq_usage follows the first await, log_action   *)
(*     follows the await of edit_message_text.                               *)

Creators == {Customer, CONFIG_admin_ids[2]}

\* the frame of a handler of u that has resumed: the files as they are now,
\* entry as they were when the handler was entered.  A suspended callback
\* keeps entry until it has resumed, and then whether another handler had
\* saved tickets in between (overtaken).
FrameAt(u, entry) == [Frame(u) EXCEPT !.entry = entry]

\* a suspended or finished segment of handler name leaves the store as r has it
Commit(u, name, r, next) ==
    /\ WithinBounds(r)
    /\ tickets' = r.tickets
    /\ faq_items' = r.faq_items
    /\ stats' = r.stats
    /\ inflight' = [inflight EXCEPT ![u] = next]
    /\ returned' = [tickets |-> HighestIssued(returned.tickets, r.issued, "tickets"),
                    faq |-> HighestIssued(returned.faq, r.issued, "faq")]
    /\ last' = [NoUpdate EXCEPT !.kind = "segment", !.user = u, !.handler = name]
    /\ UNCHANGED disk

\* /new: new_ticket_start accesses no store, it is taken whole
StartNew == \E u \in Creators : inflight[u] = Idle /\ Command(u, C_new)

\* the question arrives: new_ticket_receive up to its first await
BeginText ==
    \E u \in Creators :
        /\ inflight[u] = Idle
        /\ conversations[u] = WAITING_FOR_QUESTION
        /\ LET h == RouteText({}, u, T_long)
           IN  Commit(u, h.handler, h.r,
                      [pc |-> "awaiting_reply", handler |-> h.handler, conv |-> h.conv])
        /\ UNCHANGED <<user_data, conversations>>

\* the reply and the notifications are out: the handler returns END
FinishText ==
    \E u \in Creators :
        /\ inflight[u].pc = "awaiting_reply"
        /\ conversations' = [conversations EXCEPT ![u] = inflight[u].conv]
        /\ Commit(u, inflight[u].handler, Frame(u), Idle)
        /\ UNCHANGED user_data

OverlapPayloads(u) ==
    IF u = Admin THEN {CloseButton(1)} ELSE {P_faq_ \o Str(1)}

\* a button press: the callback is entered and suspended at query.answer()
BeginButton ==
    \E u \in Users : \E data \in OverlapPayloads(u) :
        /\ inflight[u] = Idle
        /\ Commit(u, RouteButton({}, u, data).handler, Frame(u),
                  [pc |-> "awaiting_answer", handler |-> RouteButton({}, u, data).handler,
                   data |-> data, entry |-> Files])
        /\ UNCHANGED <<user_data, conversations>>

\* query.answer() is done: the callback runs to its next await after a save
ResumeButton ==
    \E u \in Users :
        /\ inflight[u].pc = "awaiting_answer"
        /\ LET s == FrameAt(u, inflight[u].entry)
               r == IF inflight[u].handler = "admin_callback"
                    THEN admin_callback({}, s, u, inflight[u].data)
                    ELSE faq_callback_until_edit(s, inflight[u].data)
           IN  Commit(u, inflight[u].handler, r,
                      [pc |-> IF r.replies = <<"faq_not_found">>
                              THEN "awaiting_last_edit" ELSE "awaiting_edit",
                       handler |-> inflight[u].handler, data |-> inflight[u].data,
                       overtaken |-> inflight[u].entry.tickets # tickets])
        /\ UNCHANGED <<user_data, conversations>>

\* the message is edited: faq_callback logs the view, admin_callback is over
FinishButton ==
    \E u \in Users :
        /\ inflight[u].pc \in {"awaiting_edit", "awaiting_last_edit"}
        /\ LET s == Frame(u)
               r == IF inflight[u].handler = "faq_callback" /\ inflight[u].pc = "awaiting_edit"
                    THEN faq_callback_after_edit(s, u, inflight[u].data)
                    ELSE s
           IN  Commit(u, inflight[u].handler, r, Idle)
        /\ UNCHANGED <<user_data, conversations>>

NextOverlap ==
    \/ StartNew
    \/ BeginText
    \/ FinishText
    \/ BeginButton
    \/ ResumeButton
    \/ FinishButton

SpecOverlap == Init /\ [][NextOverlap]_vars

(* A failing disk: the data directory stops and starts taking writes while  *)
(* a customer opens tickets and an administrator adds and edits FAQ entries. *)

DiskStates == {"ok", "denied", "torn"}

SetDisk ==
    /\ \E d \in DiskStates \ {disk} : disk' = d
    /\ last' = NoUpdate
    /\ UNCHANGED <<tickets, faq_items, stats, user_data, conversations, inflight, returned>>

WriterText == \E text \in {T_create_ticket, T_long} : Text({}, Customer, text)
KeeperButton ==
    \E data \in {P_admin_faq_add, P_admin_faq_edit_answer_ \o Str(1)} :
        Button({}, Admin, data)
KeeperText == Text({}, Admin, T_long)

NextDisk ==
    \/ SetDisk
    \/ WriterText
    \/ KeeperButton
    \/ KeeperText

SpecDisk == Init /\ [][NextDisk]_vars

----------------------------------------------------------------------------
(* The pending flows of a session *)

\* awaiting ticket text: ticket_conv waits for the question, or handle_text does
\* The FAQ desk: the administrator adds, edits and deletes FAQ entries, among
\* them an edit of an id no entry has and edits begun before the entry was
\* deleted; entry 2 is viewed, so that an edited entry has been used.
DeskTexts == {T_padded}
DeskPayloads ==
    {P_admin_faq_add,
     P_admin_faq_edit_question_ \o Str(1), P_admin_faq_edit_answer_ \o Str(9),
     P_admin_faq_edit_category_ \o Str(2),
     P_admin_faq_delete_ \o Str(1), P_admin_faq_delete_ \o Str(5),
     P_faq_ \o Str(2)}

DeskText == \E text \in DeskTexts : Text({}, Admin, text)
DeskButton == \E data \in DeskPayloads : Button({}, Admin, data)

NextDesk ==
    \/ DeskText
    \/ DeskButton

SpecDesk == Init /\ [][NextDesk]_vars

\* The menu: the administrator starts each of the three administrator flows
\* and sends the four menu labels and a ticket question in between.
MenuTexts == {T_create_ticket, T_faq, T_my_tickets, T_help, T_long}
MenuPayloads ==
    {P_admin_faq_add, P_admin_faq_edit_question_ \o Str(9), RespondButton(1)}

MenuText == \E text \in MenuTexts : Text({}, Admin, text)
MenuButton == \E data \in MenuPayloads : Button({}, Admin, data)

NextMenu ==
    \/ MenuText
    \/ MenuButton

SpecMenu == Init /\ [][NextMenu]_vars

\* Payloads and texts no button of the bot carries and no prompt asks for:
\* a client may send any callback data and any text. The id of faq_x is no
\* number, admin_faq_view_ has none, ticket_action_5 has no action; the reply
\* shorthand comes with a word for the id and with nothing after the "#".
P_faq_x == P_faq_ \o <<"x">>
P_ticket_action_5 == P_ticket_action_ \o Str(5)
T_reply_x == T_reply_prefix \o <<"x", " ", "o", "k">>
OddPayloads == {P_admin_faq_view_, P_ticket_action_5, P_ticket_, RespondButton(1)}
OddTexts == {T_reply_x, T_reply_prefix, T_long}

ClientButton == \E data \in {P_faq_x, P_faq_ \o Str(1)} : Button({}, Customer, data)
ClientText == \E text \in {T_create_ticket, T_long} : Text({}, Customer, text)
OperatorButton == \E data \in OddPayloads : Button({}, Admin, data)
OperatorText == \E text \in OddTexts : Text({}, Admin, text)

NextOdd ==
    \/ ClientButton
    \/ ClientText
    \/ OperatorButton
    \/ OperatorText

SpecOdd == Init /\ [][NextOdd]_vars

AwaitingTicketText(u) ==
    conversations[u] = WAITING_FOR_QUESTION \/ Truthy(user_data[u], "waiting_for_ticket")

AddingFaq(u) == Truthy(user_data[u], "adding_faq")

EditingFaqField(u) ==
    Has(user_data[u], "editing_faq_id") /\ Has(user_data[u], "editing_faq_type")

RespondingToTicket(u) == Has(user_data[u], "responding_to_ticket")

PendingFlows(u) ==
    (IF AwaitingTicketText(u) THEN {"awaiting_ticket_text"} ELSE {})
    \cup (IF AddingFaq(u) THEN {"adding_faq"} ELSE {})
    \cup (IF EditingFaqField(u) THEN {"editing_faq_field"} ELSE {})
    \cup (IF RespondingToTicket(u) THEN {"responding_to_ticket"} ELSE {})

----------------------------------------------------------------------------
(* Claims *)

\* the tickets present before and after a step, by position
Kept == {i \in 1..Len(tickets) : i <= Len(tickets')}
Added == {i \in 1..Len(tickets') : i > Len(tickets)}

StatusChange(i) == <<tickets[i].status, tickets'[i].status>>

\* C1 as stated: every change of a ticket's status is open->in_progress,
\* in_progress->closed or open->cancelled (so never open->closed in one step),
\* and every ticket starts at open.
C1_OnlyThreeEdges ==
    [][/\ \A i \in Kept :
            tickets'[i].status # tickets[i].status
            => StatusChange(i) \in {<<"open", "in_progress">>, <<"in_progress", "closed">>,
                                    <<"open", "cancelled">>}
       /\ \A i \in Added : tickets'[i].status = "open"]_vars

\* C1 amended: every change of a ticket's status is open->in_progress,
\* in_progress->closed, open->cancelled or open->closed (the close button and
\* an administrator's reply close an open ticket in one step), and every
\* ticket starts at open.
C1_EdgesWithDirectClose ==
    [][/\ \A i \in Kept :
            tickets'[i].status # tickets[i].status
            => StatusChange(i) \in {<<"open", "in_progress">>, <<"in_progress", "closed">>,
                                    <<"open", "cancelled">>, <<"open", "closed">>}
       /\ \A i \in Added : tickets'[i].status = "open"]_vars

\* C1 witness: the close button has just closed ticket 1, which had no reply
C1_ClosedByButton ==
    /\ last.kind = "button" /\ last.data = CloseButton(1)
    /\ last.replies = <<"closed", "ticket_details">>
    /\ Len(tickets) >= 1 /\ tickets[1].status = "closed"
    /\ tickets[1].admin_response = None

\* C2: once a ticket is closed or cancelled, no update (a claim, close or
\* respond button, also from a stale view, a pending-reply text, the reply
\* shorthand) makes its status open or in_progress.
C2_TerminalStaysTerminal ==
    [][\A i \in 1..Len(tickets) :
          tickets[i].status \in {"closed", "cancelled"}
          => i \in Kept /\ tickets'[i].status \notin {"open", "in_progress"}]_vars

\* C2 witness: the administrator has pressed the claim button of a stale view
\* of ticket 1, which an answer had closed
C2_ClaimPressedOnClosed ==
    /\ last.kind = "button" /\ last.user = Admin /\ last.data = ClaimButton(1)
    /\ last.handler = "admin_callback" /\ ~last.raised
    /\ Len(tickets) >= 1 /\ tickets[1].status = "closed"
    /\ tickets[1].admin_response # None

\* C3: when an administrator presses the claim button the ticket view offers
\* for an open ticket, the ticket becomes in_progress with that administrator
\* as adminId.
C3_ClaimButtonClaims ==
    [][\A i \in Kept :
          /\ ClaimButton(tickets[i].id) \in TicketButtons(tickets[i])
          /\ last'.kind = "button" /\ is_admin(last'.user)
          /\ last'.data = ClaimButton(tickets[i].id)
          => /\ tickets'[i].status = "in_progress"
             /\ tickets'[i].admin_id = Some(last'.user)]_vars

\* C4: in every reachable state every session has at most one pending flow
\* among awaiting-ticket-text, adding-FAQ, editing-FAQ-field and
\* responding-to-ticket.
C4_AtMostOneFlow ==
    \A u \in Users : Cardinality(PendingFlows(u)) <= 1

MenuLabels == {T_create_ticket, T_faq, T_my_tickets, T_help}

\* C5: starting a flow discards the scratch fields of an unfinished run: the
\* text an administrator sends right after (re)starting add-FAQ is stored as
\* the new entry's question and as nothing else, and persists nothing, also
\* when an earlier run of add-FAQ had stored a question.
C5_RestartTakesQuestion ==
    [][/\ last.kind = "button" /\ last.data = P_admin_faq_add /\ is_admin(last.user)
       /\ PendingFlows(last.user) = {"adding_faq"}
       /\ last'.kind = "text" /\ last'.user = last.user
       /\ last'.data \notin MenuLabels
       => /\ Has(user_data'[last.user], "faq_question")
          /\ user_data'[last.user]["faq_question"] = last'.data
          /\ ~Has(user_data'[last.user], "faq_answer")
          /\ faq_items' = faq_items]_vars

\* C6: after the cancel command the sender has no pending flow, whatever flow
\* was pending and however it was started.
C6_CancelClearsFlows ==
    [][\A u \in Users :
          last'.kind = "command" /\ last'.data = C_cancel /\ last'.user = u
          => PendingFlows(u)' = {}]_vars

\* C7: while a user awaits ticket text (on either entry path) a text of fewer
\* than 10 characters adds no ticket and leaves the user awaiting ticket text;
\* every ticket in the store has a question of at least 10 characters.
C7_ShortQuestionRejected ==
    /\ [](\A i \in 1..Len(tickets) : Len(tickets[i].question) >= 10)
    /\ [][\A u \in Users :
             /\ AwaitingTicketText(u)
             /\ last'.kind = "text" /\ last'.user = u /\ Len(last'.data) < 10
             => tickets' = tickets /\ AwaitingTicketText(u)']_vars

\* C7 witness: a user who awaits ticket text through handle_text (not through
\* ticket_conv) has just been told that the text was too short, with a ticket
\* of an earlier question in the store
C7_ShortTextRefused ==
    /\ last.kind = "text" /\ Len(last.data) = 9 /\ last.handler = "handle_text"
    /\ last.replies = <<"too_short">>
    /\ Truthy(user_data[last.user], "waiting_for_ticket")
    /\ Len(tickets) = 1

\* C8: after a user's text has created a ticket, that user no longer awaits
\* ticket text, however the flow was started (so the next plain text creates
\* no second ticket).
C8_CreationEndsFlow ==
    [][\A u \in Users :
          last'.kind = "text" /\ last'.user = u /\ Len(tickets') > Len(tickets)
          => ~AwaitingTicketText(u)']_vars

\* C9: with no ticket in the store, a user who sends the create-ticket label
\* and then a text of at least 10 characters ends with exactly one ticket: id
\* 1, open, owned by the sender, the text as question, no adminId and no
\* adminResponse; listForUser(user) is exactly that ticket and
\* listAll('open') holds it.
C9_HappyPath ==
    [][/\ tickets = <<>>
       /\ last.kind = "text" /\ last.data = T_create_ticket
       /\ last'.kind = "text" /\ last'.user = last.user /\ Len(last'.data) >= 10
       => LET t == [id |-> 1, user_id |-> last.user, question |-> last'.data,
                    status |-> "open", admin_id |-> None, admin_response |-> None]
          IN  /\ tickets' = <<t>>
              /\ get_user_tickets(tickets', last.user) = <<t>>
              /\ \E i \in 1..Len(get_all_tickets(tickets', Some("open"))) :
                    get_all_tickets(tickets', Some("open"))[i] = t]_vars

\* C9 witness: the first ticket has just been created from the text that
\* followed the label
C9_FirstTicketCreated ==
    /\ last.kind = "text" /\ last.handler = "new_ticket_receive"
    /\ last.issued = <<[coll |-> "tickets", id |-> 1]>>
    /\ Len(tickets) = 1 /\ tickets[1].question = last.data
    /\ get_user_tickets(tickets, last.user) = tickets

\* C10: within each collection every id returned by create / add is strictly
\* greater than every id returned earlier for that collection, whatever was
\* deleted in between.
C10_IdsGrow ==
    [][\A k \in 1..Len(last'.issued) :
          last'.issued[k].id > returned[last'.issued[k].coll]]_vars

\* the part of an FAQ entry an administrator writes
Authored(f) == [id |-> f.id, question |-> f.question, answer |-> f.answer,
                category |-> f.category]

\* C11: an update (text or button press, admin_* and ticket_* payloads
\* included) of a sender outside the allow-list changes no ticket's status,
\* adminId or adminResponse, adds, edits and deletes no FAQ entry, and starts
\* no adding-FAQ, editing-FAQ-field or responding-to-ticket flow in any
\* session.
C11_OutsiderChangesNothing ==
    [][last'.kind \in {"text", "button"} /\ ~is_admin(last'.user)
       => /\ \A i \in Kept :
                /\ tickets'[i].status = tickets[i].status
                /\ tickets'[i].admin_id = tickets[i].admin_id
                /\ tickets'[i].admin_response = tickets[i].admin_response
          /\ Len(faq_items') = Len(faq_items)
          /\ \A i \in 1..Len(faq_items) : Authored(faq_items'[i]) = Authored(faq_items[i])
          /\ \A u \in Users :
                /\ AddingFaq(u)' => AddingFaq(u)
                /\ EditingFaqField(u)' => EditingFaqField(u)
                /\ RespondingToTicket(u)' => RespondingToTicket(u)]_vars

\* C11 witness: the customer has pressed the close button of the own open
\* ticket 1 and was refused; the ticket is still open
C11_CloseRefused ==
    /\ last.kind = "button" /\ last.user = Customer /\ last.data = CloseButton(1)
    /\ last.replies = <<"no_access">>
    /\ Len(tickets) >= 1 /\ tickets[1].status = "open" /\ tickets[1].user_id = Customer

\* the reply shorthands the administrator sends: the ticket id each names and
\* the free text after the id (None when there is none)
Shorthands ==
    {[text |-> T_reply_1, id |-> 1, free |-> Some(<<"o", "k">>)],
     [text |-> T_reply_bare, id |-> 2, free |-> None],
     [text |-> T_reply_spaced, id |-> 1, free |-> Some(<<"a", " ", "b">>)]}

\* C12: when an administrator with no pending flow sends the reply shorthand
\* naming an existing ticket and a free text, the ticket ends closed with
\* exactly that text as adminResponse and the administrator as adminId, and
\* one notification carrying the text goes to the ticket's owner; without a
\* free text the fixed placeholder is stored and sent.
C12_ShorthandAnswers ==
    [][\A sh \in Shorthands :
          /\ last'.kind = "text" /\ last'.data = sh.text /\ is_admin(last'.user)
          /\ PendingFlows(last'.user) = {}
          /\ IndexOfId(tickets, sh.id) # 0
          => LET i == IndexOfId(tickets, sh.id)
                 response == IF sh.free = None THEN T_reply_placeholder ELSE sh.free[1]
             IN  /\ tickets'[i].status = "closed"
                 /\ tickets'[i].admin_response = Some(response)
                 /\ tickets'[i].admin_id = Some(last'.user)
                 /\ Len(last'.sent) = 1
                 /\ last'.sent[1].to = tickets[i].user_id
                 /\ last'.sent[1].text = Some(response)]_vars

\* C12 witness: ticket 1 was answered by the shorthand with the text "a b",
\* and ticket 2 has just been answered by the shorthand without a text
C12_BothSpellingsAnswered ==
    /\ last.kind = "text" /\ last.data = T_reply_bare /\ last.user = Admin
    /\ Len(tickets) = 2
    /\ tickets[1].status = "closed" /\ tickets[1].admin_response = Some(<<"a", " ", "b">>)
    /\ tickets[2].status = "closed" /\ tickets[2].admin_response = Some(T_reply_placeholder)
    /\ Len(last.sent) = 1 /\ last.sent[1].text = Some(T_reply_placeholder)

\* the third text of add-FAQ, trimmed; the default category when nothing is left
Trimmed(text) ==
    CASE text = T_blank -> L_general
      [] text = T_padded -> L_faq
      [] OTHER -> text

\* C13: in the add-FAQ flow the first text (kept as the question) and the
\* second text (kept as the answer) leave the FAQ collection unchanged; the
\* third text appends exactly one entry with the first text as question, the
\* second as answer, the trimmed third text (or "general" when that is empty)
\* as category and usageCount 0, and clears the flow and its scratch fields.
\* The scratch fields are those of the pending flow: an answer is kept only
\* with a question, a question only while the flow is pending.
C13_AddFaqInThreeTexts ==
    /\ [](\A u \in Users :
            /\ Has(user_data[u], "faq_answer") => Has(user_data[u], "faq_question")
            /\ Has(user_data[u], "faq_question") => AddingFaq(u))
    /\ [][\A u \in Users :
             /\ last'.kind = "text" /\ last'.user = u /\ is_admin(u)
             /\ AddingFaq(u) /\ ~AwaitingTicketText(u) /\ last'.data \notin MenuLabels
             => IF ~Has(user_data[u], "faq_question")
                THEN /\ faq_items' = faq_items
                     /\ AddingFaq(u)'
                     /\ Has(user_data'[u], "faq_question")
                     /\ user_data'[u]["faq_question"] = last'.data
                     /\ ~Has(user_data'[u], "faq_answer")
                ELSE IF ~Has(user_data[u], "faq_answer")
                THEN /\ faq_items' = faq_items
                     /\ AddingFaq(u)'
                     /\ user_data'[u]["faq_question"] = user_data[u]["faq_question"]
                     /\ Has(user_data'[u], "faq_answer")
                     /\ user_data'[u]["faq_answer"] = last'.data
                ELSE /\ Len(faq_items') = Len(faq_items) + 1
                     /\ SubSeq(faq_items', 1, Len(faq_items)) = faq_items
                     /\ LET new == faq_items'[Len(faq_items')]
                        IN  /\ new.question = user_data[u]["faq_question"]
                            /\ new.answer = user_data[u]["faq_answer"]
                            /\ new.category = Trimmed(last'.data)
                            /\ new.usage_count = 0
                            /\ new.id \notin Ids(faq_items)
                     /\ ~AddingFaq(u)'
                     /\ ~Has(user_data'[u], "faq_question")
                     /\ ~Has(user_data'[u], "faq_answer")]_vars

\* C13 witness: the third text, blanks around a word, has just added entry 5
\* under the trimmed category, and the flow is over
C13_EntryAdded ==
    /\ last.kind = "text" /\ last.data = T_padded /\ last.replies = <<"faq_added">>
    /\ Len(faq_items) = 5 /\ faq_items[5].category = L_faq
    /\ faq_items[5].question = T_padded /\ faq_items[5].answer = T_blank
    /\ PendingFlows(last.user) = {}

\* q is in non-increasing usageCount order
NonIncreasing(q) == \A i \in 1..(Len(q) - 1) : q[i].usage_count >= q[i + 1].usage_count

\* C20: incrementUsage(id) raises the usageCount of the entry with that id by
\* exactly 1 and changes no other count and no question, answer or category;
\* for an id no entry has nothing changes; list() returns the entries in
\* non-increasing usageCount order.  Checked of the operation applied to
\* every reachable FAQ collection, and of the FAQ view that calls it.
C20_UsageCounted ==
    /\ [](\A id \in Ids(faq_items) \cup ViewedIds :
            LET after == increment_faq_usage(Frame(Customer), id).faq_items
            IN  /\ Len(after) = Len(faq_items)
                /\ \A i \in 1..Len(faq_items) :
                      /\ Authored(after[i]) = Authored(faq_items[i])
                      /\ after[i].usage_count =
                            faq_items[i].usage_count + (IF faq_items[i].id = id THEN 1 ELSE 0)
                /\ NonIncreasing(get_faq_items(after, None)))
    /\ [](/\ NonIncreasing(get_faq_items(faq_items, None))
          /\ Len(get_faq_items(faq_items, None)) = Len(faq_items))
    /\ [][\A id \in ViewedIds :
             last'.kind = "button" /\ last'.data = P_faq_ \o Str(id)
             => /\ Len(faq_items') = Len(faq_items)
                /\ \A i \in 1..Len(faq_items) :
                      /\ Authored(faq_items'[i]) = Authored(faq_items[i])
                      /\ faq_items'[i].usage_count =
                            faq_items[i].usage_count + (IF faq_items[i].id = id THEN 1 ELSE 0)]_vars

\* C20 witness: entry 2 has just been opened and counted once, entry 1 never,
\* and the list shows entry 2 first
C20_SecondEntryCounted ==
    /\ last.kind = "button" /\ last.data = P_faq_ \o Str(2) /\ last.replies = <<"faq_answer">>
    /\ faq_items[1].usage_count = 0 /\ faq_items[2].usage_count = 1
    /\ get_faq_items(faq_items, None)[1].id = 2

\* C14: while a user awaits ticket text, every text of at least 10 characters
\* that user sends is taken as the question and creates a ticket: also a text
\* that equals a menu label, a text of an administrator with another flow
\* pending, and a text in the form of the reply shorthand.
C14_AwaitingTicketWins ==
    [][\A u \in Users :
          /\ AwaitingTicketText(u)
          /\ last'.kind = "text" /\ last'.user = u /\ Len(last'.data) >= 10
          => /\ Len(tickets') = Len(tickets) + 1
             /\ tickets'[Len(tickets')].question = last'.data
             /\ tickets'[Len(tickets')].user_id = u]_vars

\* C16: when a notification to a ticket's owner that an administrator's action
\* triggers (a reply through the responding flow or the shorthand, the close
\* button) is not delivered, that administrator is shown an error message.
C16_FailedDeliveryShown ==
    [][\A k \in 1..Len(last'.sent) :
          /\ is_admin(last'.user)
          /\ last'.sent[k].kind \in {"reply", "closed"}
          /\ ~last'.sent[k].delivered
          => \E j \in 1..Len(last'.replies) : last'.replies[j] = "send_error"]_vars

\* C17: the creation of a ticket attempts one new-ticket notification to
\* every configured administrator, in the order of the configuration and
\* whichever of the deliveries fail; the ticket is in the store whatever the
\* deliveries did.
C17_EveryAdminNotified ==
    [][Len(tickets') > Len(tickets)
       => LET t == tickets'[Len(tickets')]
          IN  /\ Len(tickets') = Len(tickets) + 1
              /\ t.status = "open" /\ t.question = last'.data /\ t.user_id = last'.user
              /\ Len(last'.sent) = Len(CONFIG_admin_ids)
              /\ \A k \in 1..Len(CONFIG_admin_ids) :
                    /\ last'.sent[k].to = CONFIG_admin_ids[k]
                    /\ last'.sent[k].kind = "new_ticket"
                    /\ last'.sent[k].ticket = t.id]_vars

\* C17 witness: a ticket has just been created; the delivery to the first
\* administrator failed, the one to the second was made after it
C17_SecondAdminStillNotified ==
    /\ last.kind = "text" /\ last.issued # <<>>
    /\ Len(last.sent) = 2
    /\ ~last.sent[1].delivered /\ last.sent[2].delivered
    /\ Len(tickets) >= 1 /\ tickets[Len(tickets)].question = last.data

Told(update, what) == \E j \in 1..Len(update.replies) : update.replies[j] \in what

\* C15: when the save fails while a ticket is created or an FAQ entry is
\* added or edited, the user who triggered the operation is told that it
\* failed, and is not told that the ticket was created or the entry added or
\* updated.
C15_FailedSaveReported ==
    [][/\ disk # "ok"
       /\ last'.kind = "text"
       /\ \/ last'.issued # <<>>
          \/ Told(last', {"faq_updated", "faq_update_error"})
       => /\ ~Told(last', {"ticket_created", "faq_added", "faq_updated"})
          /\ Told(last', {"faq_add_error", "faq_update_error", "error"})]_vars

\* C18: however the handlers of different users overlap at their awaits, no
\* committed change of a collection is lost: every ticket created is in the
\* ticket collection under an id of its own, a ticket once closed stays
\* closed by the same administrator, no log entry and no counted view
\* disappears, and a handler of tickets leaves the FAQ as it is and a handler
\* of the FAQ leaves the tickets as they are.
C18_NoLostUpdate ==
    /\ [](/\ Cardinality(Ids(tickets)) = Len(tickets)
          /\ Len(tickets) = returned.tickets)
    /\ [][/\ \A i \in 1..Len(tickets) :
               /\ i <= Len(tickets')
               /\ tickets'[i].id = tickets[i].id
               /\ tickets'[i].question = tickets[i].question
               /\ (tickets[i].status = "closed"
                   => /\ tickets'[i].status = "closed"
                      /\ tickets'[i].admin_id = tickets[i].admin_id)
          /\ Len(stats') >= Len(stats) /\ SubSeq(stats', 1, Len(stats)) = stats
          /\ Len(faq_items') = Len(faq_items)
          /\ \A i \in 1..Len(faq_items) :
               faq_items'[i].usage_count >= faq_items[i].usage_count
          /\ (last'.handler \in {"new_ticket_start", "new_ticket_receive", "admin_callback"}
              => faq_items' = faq_items)
          /\ (last'.handler = "faq_callback" => tickets' = tickets)]_vars

\* C18 witness: two creations overlap (both handlers are suspended at their
\* reply) and both tickets are stored under different ids, while a close of
\* ticket 1 that was entered before the second creation has saved its change
C18_CreationsOverlapped ==
    /\ \A u \in Creators : inflight[u].pc = "awaiting_reply"
    /\ Len(tickets) = 2 /\ tickets[1].id # tickets[2].id
    /\ tickets[1].user_id # tickets[2].user_id
    /\ inflight[Admin].pc = "awaiting_edit" /\ inflight[Admin].overtaken
    /\ tickets[1].status = "closed" /\ tickets[2].status = "open"

\* C25: an administrator's reply (through the pending responding-to-ticket
\* flow or the reply shorthand) or status button that names a ticket id no
\* ticket has leaves every ticket as it was and sends no notification; in the
\* reply cases the administrator is told that the ticket was not found and
\* the responding-to-ticket flow is over.
C25_UnknownTicketIsNoOp ==
    [][\A a \in Users :
          /\ is_admin(a) /\ last'.user = a
          /\ ~AwaitingTicketText(a) /\ ~AddingFaq(a) /\ ~EditingFaqField(a)
          => /\ (/\ last'.kind = "text" /\ last'.data \notin MenuLabels
                  /\ RespondingToTicket(a)
                  /\ IndexOfId(tickets, user_data[a]["responding_to_ticket"]) = 0
                  => /\ tickets' = tickets /\ last'.sent = <<>>
                     /\ last'.replies = <<"ticket_not_found">>
                     /\ ~RespondingToTicket(a)')
             /\ (/\ last'.kind = "text" /\ last'.data = T_reply_1
                  /\ ~RespondingToTicket(a) /\ IndexOfId(tickets, 1) = 0
                  => /\ tickets' = tickets /\ last'.sent = <<>>
                     /\ last'.replies = <<"ticket_not_found">>
                     /\ ~RespondingToTicket(a)')
             /\ \A t \in TicketIds :
                   /\ last'.kind = "button"
                   /\ last'.data \in {ClaimButton(t), CloseButton(t)}
                   /\ IndexOfId(tickets, t) = 0
                   => tickets' = tickets /\ last'.sent = <<>>]_vars

\* C25 witness: with ticket 1 only in the store, the administrator has
\* answered ticket 2 through the respond button of a stale view and was told
\* that there is no such ticket
C25_ReplyToUnknownTicket ==
    /\ last.kind = "text" /\ last.user = Admin /\ last.data = T_long
    /\ last.replies = <<"ticket_not_found">> /\ last.sent = <<>>
    /\ Len(tickets) = 1 /\ tickets[1].id = 1 /\ tickets[1].status = "open"
    /\ ~RespondingToTicket(Admin)

C28_ClosedBeforeDelivery ==
    [][\A k \in 1..Len(last'.sent) :
          last'.sent[k].kind = "reply"
          => /\ last'.sent[k].seen # None
             /\ last'.sent[k].seen[1].status = "closed"
             /\ last'.sent[k].seen[1].admin_response = last'.sent[k].text
             /\ last'.sent[k].seen[1].user_id = last'.sent[k].to
             /\ get_ticket_by_id(tickets', last'.sent[k].ticket) = last'.sent[k].seen]_vars

\* C28 witness: the reply to ticket 1 could not be delivered to its owner and
\* the ticket is closed with that reply
C28_UndeliveredReplyCommitted ==
    /\ last.kind = "text" /\ last.user = Admin
    /\ Len(last.sent) = 1 /\ last.sent[1].kind = "reply"
    /\ ~last.sent[1].delivered /\ last.sent[1].ticket = 1
    /\ last.replies = <<"send_error">>
    /\ Len(tickets) >= 1 /\ tickets[1].status = "closed"
    /\ tickets[1].admin_response = last.sent[1].text

\* the positions of the FAQ entries that carry the id
Carriers(data, faq_id) == {i \in 1..Len(data) : data[i].id = faq_id}

\* C21: for every question, answer and category and every prior content of
\* the FAQ, add_faq followed at once by get_faq_by_id on the id it returned
\* gives the entry with exactly that question, answer and category and
\* usage_count 0, and no other entry carries that id; the same holds of the
\* entry the adding-FAQ flow adds.
C21_AddThenGet ==
    /\ [](\A q \in {<<>>, T_padded}, a \in {T_blank, T_padded}, c \in {L_general, T_blank} :
            LET added == add_faq(Frame(Admin), q, a, c)
            IN  /\ get_faq_by_id(added.faq_items, added.ret)
                       = Some([id |-> added.ret, question |-> q, answer |-> a,
                               category |-> c, usage_count |-> 0])
                /\ Cardinality(Carriers(added.faq_items, added.ret)) = 1)
    /\ [][\A k \in 1..Len(last'.issued) :
              last'.issued[k].coll = "faq"
              => /\ get_faq_by_id(faq_items', last'.issued[k].id)
                        = Some([id |-> last'.issued[k].id,
                                question |-> user_data[last'.user]["faq_question"],
                                answer |-> user_data[last'.user]["faq_answer"],
                                category |-> IF Strip(last'.data) = <<>> THEN L_general
                                             ELSE Strip(last'.data),
                                usage_count |-> 0])
                 /\ Cardinality(Carriers(faq_items', last'.issued[k].id)) = 1]_vars

\* C21 witness: with entry 1 deleted, so that the ids are not the positions,
\* the adding-FAQ flow has added entry 5 and it is the fourth entry
C21_AddedAfterDelete ==
    /\ last.kind = "text" /\ last.replies = <<"faq_added">>
    /\ last.issued = <<[coll |-> "faq", id |-> 5]>>
    /\ Len(faq_items) = 4 /\ faq_items[1].id = 2
    /\ faq_items[4] = [id |-> 5, question |-> T_padded, answer |-> T_padded,
                        category |-> L_faq, usage_count |-> 0]

\* C24: the text that ends the editing-FAQ-field flow changes, in the entry
\* with the id being edited, the field being edited and nothing else: its
\* other two text fields, its usage_count, its id and every other entry stay
\* as they were. update_faq returns TRUE exactly when an entry has the id,
\* and the flow is over after the text whether or not the entry exists.
C24_EditChangesOneField ==
    /\ [](\A faq_id \in {1, 2, 5, 9}, field \in {"question", "answer", "category"} :
            update_faq(Frame(Admin), faq_id, field, T_padded).ret
                = (Carriers(faq_items, faq_id) # {}))
    /\ [][\A a \in Users :
              /\ is_admin(a) /\ last'.user = a /\ last'.kind = "text"
              /\ last'.data \notin MenuLabels
              /\ EditingFaqField(a) /\ ~AwaitingTicketText(a) /\ ~AddingFaq(a)
              => LET faq_id == user_data[a]["editing_faq_id"]
                     field == user_data[a]["editing_faq_type"]
                     value == IF field = "category" /\ Strip(last'.data) = <<>>
                              THEN L_general
                              ELSE IF field = "category" THEN Strip(last'.data)
                              ELSE last'.data
                 IN  /\ ~EditingFaqField(a)'
                     /\ Len(faq_items') = Len(faq_items)
                     /\ \A i \in 1..Len(faq_items) :
                           /\ faq_items'[i].id = faq_items[i].id
                           /\ faq_items'[i].usage_count = faq_items[i].usage_count
                           /\ \A f \in {"question", "answer", "category"} :
                                 faq_items'[i][f] =
                                     IF faq_items[i].id = faq_id /\ f = field
                                     THEN value ELSE faq_items[i][f]
                     /\ last'.replies =
                            IF Carriers(faq_items, faq_id) # {}
                            THEN <<"faq_updated">> ELSE <<"faq_update_error">>]_vars

\* C24 witness: the category of entry 2, which has been viewed once, has just
\* been edited: the typed text is stored trimmed, the usage count is still 1
\* and the question and the answer are the seeded ones
C24_CategoryEdited ==
    /\ last.kind = "text" /\ last.data = T_padded /\ last.replies = <<"faq_updated">>
    /\ ~EditingFaqField(Admin)
    /\ \E i \in 1..Len(faq_items) :
          faq_items[i] = [default_faq[2] EXCEPT !.category = L_faq, !.usage_count = 1]
    /\ \E i \in 1..Len(faq_items) : faq_items[i] = default_faq[3]

\* what the menu action of a label replies
MenuReply(u, label) ==
    IF label = T_create_ticket THEN "ask_question"
    ELSE IF label = T_faq
    THEN (IF faq_items = <<>> THEN "faq_empty" ELSE "faq_list")
    ELSE IF label = T_my_tickets
    THEN (IF \E i \in 1..Len(tickets) : tickets[i].user_id = u
          THEN "my_tickets" ELSE "no_tickets")
    ELSE "help"

\* C23: when an administrator who has an adding-FAQ, editing-FAQ-field or
\* responding-to-ticket flow pending, and does not await ticket text, sends a
\* text equal to a menu label, the menu action is performed, no ticket and no
\* FAQ entry changes, nothing is sent to a ticket owner, and the flows that
\* were pending are still pending with the scratch fields as they were.
C23_MenuLabelPassesFlows ==
    [][\A a \in Users :
          /\ is_admin(a) /\ last'.user = a /\ last'.kind = "text"
          /\ last'.data \in MenuLabels
          /\ ~AwaitingTicketText(a)
          /\ (AddingFaq(a) \/ EditingFaqField(a) \/ RespondingToTicket(a))
          => /\ last'.replies = <<MenuReply(a, last'.data)>>
             /\ tickets' = tickets /\ faq_items' = faq_items
             /\ last'.sent = <<>> /\ last'.issued = <<>>
             /\ user_data'[a] = user_data[a]
             /\ AddingFaq(a)' = AddingFaq(a)
             /\ EditingFaqField(a)' = EditingFaqField(a)
             /\ RespondingToTicket(a)' = RespondingToTicket(a)]_vars

\* C23 witness: the administrator, with the question of a new FAQ entry
\* typed and the answer due, has sent the my-tickets label and was shown the
\* tickets; the adding flow still holds the question
C23_MyTicketsDuringAddFaq ==
    /\ last.kind = "text" /\ last.user = Admin /\ last.data = T_my_tickets
    /\ last.replies = <<"my_tickets">>
    /\ AddingFaq(Admin)
    /\ Has(user_data[Admin], "faq_question")
    /\ user_data[Admin]["faq_question"] = T_long
    /\ ~Has(user_data[Admin], "faq_answer")
    /\ Len(faq_items) = 4

\* C22: the handling of an inbound event never ends in an exception that
\* leaves the handler, whatever the payload of the button or the text: not
\* for a payload whose id is no number or is missing, not for a payload
\* without its action, not for a reply shorthand without a numeric id.
C22_NoExceptionEscapes == ~last.raised

\* C27: no step removes or alters an entry of the activity log or removes a
\* ticket: every log entry stays at its place unchanged and every ticket id
\* in the store is still in the store after the step, also when a file
\* cannot be read and is taken as empty before the next save.
C27_NothingIsLost ==
    [][/\ \A i \in 1..Len(stats) : i <= Len(stats') /\ stats'[i] = stats[i]
       /\ \A i \in 1..Len(tickets) :
             \E j \in 1..Len(tickets') : tickets'[j].id = tickets[i].id]_vars

====
